---- MODULE Spec2Model ----
(***************************************************************************)
(* Voice-survey call pipeline: the call-log tracker driven by carrier      *)
(* webhooks (app/routers/webhooks.py), the survey voice agent              *)
(* (app/services/livekit_voice_agent.py), call placement                   *)
(* (app/services/livekit_outbound.py) and the campaign dispatchers         *)
(* (app/routers/campaigns.py, app/services/call_orchestrator.py).          *)
(*                                                                         *)
(* The call_logs table is a set of rows keyed by twilio_call_sid.  Python  *)
(* None / a missing form field is the string NULL.                         *)
(***************************************************************************)
EXTENDS Integers, Sequences, FiniteSets, TLC

\* ------------------------------------------------------------------ bounds
\* number of store_response tool calls one agent session may make
MaxAnswers == 1
\* number of contacts of the survey
MaxContacts == 2
\* number of launch requests accepted by the model before it stops
MaxLaunches == 2
\* number of store_response tool calls of a session that runs without
\* carrier notifications (SpecAgent)
MaxSessionAnswers == 2

\* ------------------------------------------------------------ value domains
NULL == "NULL"
\* a request without CallSid
NoSid == 0
\* the call identifiers the carrier and the agent talk about
Sids == {1}
\* the CallStatus values the carrier posts (hyphenated wire format)
TwilioStatuses == {"ringing", "in-progress", "completed", "busy", "failed", "no-answer"}
QuestionIds == {"q1", "q2"}
TerminalStatuses == {"completed", "failed", "busy", "no_answer"}
NonTerminalStatuses == {"initiated", "ringing", "in_progress"}

VARIABLES
  call_logs,   \* table call_logs: set of rows
  agents,      \* per call id: the SurveyVoiceAgent instance of that call
  lastOp,      \* the operation processed last, with its inputs and outcome
  dup,         \* lastOp repeats the written status notification processed before it
  surveys,     \* table surveys: status of the survey
  contact,     \* table contact: the survey's contacts, in listing order
  tasks,       \* per launch request: the background work it queued
  attempts,    \* per launch request: the calls to initiate_outbound_call made
  launches,    \* per launch request: what the endpoint saw and answered
  hs,          \* concurrent notification handlers (pc, notification, select result)
  log0,        \* call_logs when the concurrent handlers started
  openai_to_twilio_state,  \* audio_converter._openai_to_twilio_state
  ws,          \* per bridged call: the voice_websocket handler and its two pumps
  bridgeOp,    \* the step of the audio bridge taken last, with its outcome
  codec        \* a frame taken through twilio_to_openai and openai_to_twilio

vars == <<call_logs, agents, lastOp, dup, surveys, contact, tasks, attempts, launches, hs, log0,
          openai_to_twilio_state, ws, bridgeOp, codec>>
trackerVars == <<call_logs, agents, lastOp, dup>>
campaignVars == <<surveys, contact, tasks, attempts, launches>>
concVars == <<hs, log0>>
bridgeVars == <<openai_to_twilio_state, ws, bridgeOp, codec>>

\* ------------------------------------------------------- storage operations
\* db.table("call_logs").select(...).eq("twilio_call_sid", sid).execute().data
Select(logs, sid) == {r \in logs : r.twilio_call_sid = sid}

\* defect: a new call log starts with consent set
InitialRowConsenting(sid, contact_id, status) ==
  [twilio_call_sid |-> sid, contact_id |-> contact_id, status |-> status,
   call_duration |-> 0, recording_url |-> NULL, consent |-> TRUE,
   raw_transcript |-> "", raw_responses |-> <<>>, mapped_responses |-> <<>>]
\* the row written by the three creators of a call log
InitialRow(sid, contact_id, status) ==
  [twilio_call_sid |-> sid, contact_id |-> contact_id, status |-> status,
   call_duration |-> 0, recording_url |-> NULL, consent |-> FALSE,
   raw_transcript |-> "", raw_responses |-> <<>>, mapped_responses |-> <<>>]

\* db.table("call_logs").insert(row): twilio_call_sid is the key, a second
\* insert of the same key raises
InsertRaises(logs, row) == Select(logs, row.twilio_call_sid) # {}
DbInsert(logs, row) == IF InsertRaises(logs, row) THEN logs ELSE logs \cup {row}

\* defect: the duration of an update is added to the stored duration
MergeRowAddingDuration(r, data) ==
  [f \in DOMAIN r |->
     IF f \in DOMAIN data
     THEN (IF f = "call_duration" THEN r[f] + data[f] ELSE data[f])
     ELSE r[f]]
\* one row after .update(data): the columns named in data are replaced
MergeRow(r, data) == [f \in DOMAIN r |-> IF f \in DOMAIN data THEN data[f] ELSE r[f]]

\* db.table("call_logs").update(data).eq("twilio_call_sid", sid).execute()
DbUpdate(logs, sid, data) ==
  {IF r.twilio_call_sid = sid THEN MergeRow(r, data) ELSE r : r \in logs}

\* ------------------------------------------------------ twilio_status_webhook
\* call_status.replace("-", "_") on the carrier's status words
ToDbStatus(call_status) ==
  CASE call_status = "in-progress" -> "in_progress"
    [] call_status = "no-answer" -> "no_answer"
    [] OTHER -> call_status

\* int(call_duration) if call_duration else 0, on the raw CallDuration
\* values NULL (field missing), "12" and "bad" (not a number: int() raises)
DurationRaises(call_duration) == call_duration = "bad"
ParseDuration(call_duration) ==
  CASE call_duration = NULL -> 0
    [] call_duration = "12" -> 12
    [] OTHER -> 0

\* defect: the payload also carries the creators' consent default
StatusUpdateDataWithConsent(db_status, call_duration, recording_url) ==
  IF recording_url # NULL
  THEN [status |-> db_status, call_duration |-> ParseDuration(call_duration),
        recording_url |-> recording_url, consent |-> FALSE]
  ELSE [status |-> db_status, call_duration |-> ParseDuration(call_duration),
        consent |-> FALSE]
\* update_data of the status handler
StatusUpdateData(db_status, call_duration, recording_url) ==
  IF recording_url # NULL
  THEN [status |-> db_status, call_duration |-> ParseDuration(call_duration),
        recording_url |-> recording_url]
  ELSE [status |-> db_status, call_duration |-> ParseDuration(call_duration)]

\* defect: the else branch inserts a row built from the notification
StatusWhenMissingInserts(logs, sid, data) ==
  DbInsert(logs, MergeRow(InitialRow(sid, 0, "initiated"), data))
\* the else branch of "if existing.data": the notification is skipped
StatusWhenMissing(logs, sid, data) == logs

\* Outcome of one status notification: the table afterwards, whether an
\* exception was raised inside the try block, whether the update was written.
StatusOutcome(logs, sid, call_status, call_duration, recording_url, readOk, writeOk) ==
  IF sid = NoSid \/ call_status = NULL
  THEN [logs |-> logs, raised |-> FALSE, written |-> FALSE]
  ELSE IF DurationRaises(call_duration) \/ ~readOk
  THEN [logs |-> logs, raised |-> TRUE, written |-> FALSE]
  ELSE LET data == StatusUpdateData(ToDbStatus(call_status), call_duration, recording_url)
       IN IF Select(logs, sid) = {}
          THEN [logs |-> StatusWhenMissing(logs, sid, data), raised |-> FALSE, written |-> FALSE]
          ELSE IF ~writeOk
          THEN [logs |-> logs, raised |-> TRUE, written |-> FALSE]
          ELSE [logs |-> DbUpdate(logs, sid, data), raised |-> FALSE, written |-> TRUE]

\* defect: the exception reaches the framework, which answers 500
WebhookResponsePropagating(raised) == IF raised THEN 500 ELSE 200
\* the handler's answer: "except Exception" swallows, then Response(200)
WebhookResponse(raised) == 200

\* --------------------------------------------------- twilio_recording_webhook
\* the else branch of "if existing.data": the notification is skipped
RecordingWhenMissing(logs, sid, data) == logs

RecordingOutcome(logs, sid, recording_url, recording_status, readOk, writeOk) ==
  IF ~(recording_status = "completed" /\ recording_url # NULL /\ sid # NoSid)
  THEN [logs |-> logs, raised |-> FALSE, written |-> FALSE]
  ELSE IF ~readOk
  THEN [logs |-> logs, raised |-> TRUE, written |-> FALSE]
  ELSE LET data == [recording_url |-> recording_url]
       IN IF Select(logs, sid) = {}
          THEN [logs |-> RecordingWhenMissing(logs, sid, data), raised |-> FALSE, written |-> FALSE]
          ELSE IF ~writeOk
          THEN [logs |-> logs, raised |-> TRUE, written |-> FALSE]
          ELSE [logs |-> DbUpdate(logs, sid, data), raised |-> FALSE, written |-> TRUE]

\* ------------------------------------------------------ initiate_outbound_call
\* the contact a call id was generated for (agent metadata contact_id)
CallContact(sid) == ((sid - 1) % MaxContacts) + 1

\* Placement of one call: no trunk raises before anything is stored; the
\* insert of the initiated row swallows its own failure; a failing agent
\* dispatch raises after the row was stored.
InitiateOutboundCall(logs, sid, contact_id, trunkOk, insertOk, dispatchOk) ==
  IF ~trunkOk
  THEN [logs |-> logs, raised |-> TRUE]
  ELSE [logs |-> IF insertOk THEN DbInsert(logs, InitialRow(sid, contact_id, "initiated")) ELSE logs,
        raised |-> ~dispatchOk]

\* ------------------------------------------------------------ SurveyVoiceAgent
\* __init__: conversation_transcript starts empty, and no method of the
\* agent (nor any other code) appends to it
NewAgent == [pc |-> "none", consent_given |-> FALSE, raw_responses |-> <<>>, end_called |-> FALSE,
             conversation_transcript |-> <<>>]

\* defect: the row created at entry already holds a mapping
OnEnterLogsMapping(logs, sid, contact_id, dbOk) ==
  IF dbOk /\ Select(logs, sid) = {}
  THEN DbInsert(logs, [InitialRow(sid, contact_id, "in_progress")
                         EXCEPT !.mapped_responses = <<"mapped">>])
  ELSE logs
\* on_enter: create the row unless one exists; every failure is swallowed
OnEnterLogs(logs, sid, contact_id, dbOk) ==
  IF dbOk /\ Select(logs, sid) = {}
  THEN DbInsert(logs, InitialRow(sid, contact_id, "in_progress"))
  ELSE logs

\* the raw_responses column written by store_response
StoredResponses(raw) == [i \in 1..Len(raw) |->
  [question_id |-> raw[i].question_id, raw_response |-> raw[i].answer]]

\* _build_transcript: nothing ever appends to conversation_transcript
BuildTranscript(conversation_transcript) ==
  IF conversation_transcript = <<>> THEN "" ELSE "lines"

\* defect: the except branch returns an empty list
MapResponsesWithLlmEmptyFallback(raw, llm) ==
  CASE llm = "ok" -> [i \in 1..Len(raw) |->
                       [question_id |-> raw[i].question_id, mapped_response |-> "mapped"]]
    [] OTHER -> <<>>
\* _map_responses_with_llm: what json.loads of the model's answer gives
\* ("ok": one entry per answer; "short": a valid array of another length),
\* or the fallback of the except branch ("error": the request raises,
\* "malformed": json.loads raises)
MapResponsesWithLlm(raw, llm) ==
  CASE llm = "ok" -> [i \in 1..Len(raw) |->
                       [question_id |-> raw[i].question_id, mapped_response |-> "mapped"]]
    [] llm = "short" -> <<>>
    [] OTHER -> [i \in 1..Len(raw) |->
                  [question_id |-> raw[i].question_id, mapped_response |-> raw[i].answer]]
LlmOutcomes == {"ok", "short", "error", "malformed"}

\* the first update of on_exit: transcript and status
OnExitData(transcript) == [raw_transcript |-> transcript, status |-> "completed"]

\* defect: the mapper runs for a call without answers too
MapperInvokedAlways(raw) == TRUE
\* "if self.raw_responses:"
MapperInvoked(raw) == raw # <<>>

\* on_exit: store transcript and status, then map and store the mapping
OnExitLogs(logs, sid, conversation_transcript, raw, dbOk1, llm, dbOk2) ==
  LET l1 == IF dbOk1
            THEN DbUpdate(logs, sid, OnExitData(BuildTranscript(conversation_transcript)))
            ELSE logs
  IN IF MapperInvoked(raw) /\ dbOk2
     THEN DbUpdate(l1, sid, [mapped_responses |-> MapResponsesWithLlm(raw, llm)])
     ELSE l1

\* ------------------------------------------------------------- tracker actions
\* record of one processed operation
Op(op, sid, status, duration, url, raised, written, http) ==
  [op |-> op, sid |-> sid, status |-> status, duration |-> duration, url |-> url,
   raised |-> raised, written |-> written, http |-> http]
NoOp == Op("none", NoSid, NULL, NULL, NULL, FALSE, FALSE, 0)
AgentOp(op, sid) == Op(op, sid, NULL, NULL, NULL, FALSE, FALSE, 0)
\* on_exit: whether each of its two updates was applied, and what the
\* mapper did ("not_invoked" or one of LlmOutcomes)
ExitOp(sid, transcript_written, mapping_written, mapper) ==
  [op |-> "on_exit", sid |-> sid, status |-> NULL, duration |-> NULL, url |-> NULL,
   raised |-> FALSE, written |-> FALSE, http |-> 0,
   transcript_written |-> transcript_written, mapping_written |-> mapping_written,
   mapper |-> mapper]

\* an operation seen as one of the two notifications of a finished call
Note(o) ==
  IF o.op = "recording" /\ ~o.raised /\ o.status = "completed" /\ o.url # NULL /\ o.sid # NoSid
  THEN [kind |-> "recording", sid |-> o.sid, duration |-> NULL, url |-> o.url]
  ELSE IF o.op = "status" /\ ~o.raised /\ o.status = "completed" /\ o.sid # NoSid
  THEN [kind |-> "completed", sid |-> o.sid, duration |-> o.duration, url |-> o.url]
  ELSE [kind |-> "other", sid |-> NoSid, duration |-> NULL, url |-> NULL]
\* bookkeeping common to every tracker action
Track(o) ==
  /\ lastOp' = o
  /\ dup' = (o.op = "status" /\ o.written /\ o = lastOp)

\* Requests to /twilio/status: every status without a duration, completed
\* also with one, the completed notifications that also carry a
\* RecordingUrl, and one request
\* for each way the handler leaves its normal path (missing CallSid, missing
\* CallStatus, CallDuration not a number, storage read or write raising).
\* The carrier sends CallDuration with completed notifications only.
StatusReq(sid, call_status, call_duration, recording_url, db) ==
  [sid |-> sid, status |-> call_status, duration |-> call_duration,
   url |-> recording_url, db |-> db]
StatusRequests ==
  {StatusReq(sid, st, NULL, NULL, "ok") : sid \in Sids, st \in TwilioStatuses}
  \cup {StatusReq(sid, "completed", "12", NULL, "ok") : sid \in Sids}
  \cup {StatusReq(sid, "completed", d, "rec_b", "ok") : sid \in Sids, d \in {NULL, "12"}}
  \cup {StatusReq(NoSid, "completed", "12", NULL, "ok")}
  \cup {StatusReq(sid, NULL, "12", NULL, "ok") : sid \in Sids}
  \cup {StatusReq(sid, "completed", "bad", NULL, "ok") : sid \in Sids}
  \cup {StatusReq(sid, "completed", "12", NULL, db) :
          sid \in Sids, db \in {"read_raises", "write_raises"}}

TwilioStatusWebhook ==
  \E req \in StatusRequests :
    LET out == StatusOutcome(call_logs, req.sid, req.status, req.duration, req.url,
                             req.db # "read_raises", req.db # "write_raises")
    IN /\ call_logs' = out.logs
       /\ Track(Op("status", req.sid, req.status, req.duration, req.url,
                   out.raised, out.written, WebhookResponse(out.raised)))
       /\ UNCHANGED <<agents, campaignVars, concVars, bridgeVars>>

\* Requests to /twilio/recording, chosen the same way.
RecordingReq(sid, recording_url, recording_status, db) ==
  [sid |-> sid, status |-> recording_status, duration |-> NULL, url |-> recording_url, db |-> db]
RecordingRequests ==
  {RecordingReq(sid, "rec_a", "completed", db) :
     sid \in Sids, db \in {"ok", "read_raises", "write_raises"}}
  \cup {RecordingReq(NoSid, "rec_a", "completed", "ok")}
  \cup {RecordingReq(sid, NULL, "completed", "ok") : sid \in Sids}
  \cup {RecordingReq(sid, "rec_a", "in-progress", "ok") : sid \in Sids}

TwilioRecordingWebhook ==
  \E req \in RecordingRequests :
    LET out == RecordingOutcome(call_logs, req.sid, req.url, req.status,
                                req.db # "read_raises", req.db # "write_raises")
    IN /\ call_logs' = out.logs
       /\ Track(Op("recording", req.sid, req.status, NULL, req.url,
                   out.raised, out.written, WebhookResponse(out.raised)))
       /\ UNCHANGED <<agents, campaignVars, concVars, bridgeVars>>

\* twilio_voice_webhook: without the contact, the survey or its questions
\* it answers a hang-up; a failing room creation is caught by the outer
\* except; otherwise it inserts the in_progress row, swallowing a failure
\* of the insert (storage down, or a row of that call id exists)
VoiceOutcome(logs, sid, contact_id, found, roomOk, insertOk) ==
  IF ~found THEN [logs |-> logs, raised |-> FALSE, written |-> FALSE]
  ELSE IF ~roomOk THEN [logs |-> logs, raised |-> TRUE, written |-> FALSE]
  ELSE LET row == InitialRow(sid, contact_id, "in_progress")
       IN IF insertOk /\ ~InsertRaises(logs, row)
          THEN [logs |-> DbInsert(logs, row), raised |-> FALSE, written |-> TRUE]
          ELSE [logs |-> logs, raised |-> FALSE, written |-> FALSE]

TwilioVoiceWebhook ==
  \E sid \in Sids, found \in BOOLEAN, roomOk \in BOOLEAN, insertOk \in BOOLEAN :
    LET out == VoiceOutcome(call_logs, sid, CallContact(sid), found, roomOk, insertOk)
    IN /\ call_logs' = out.logs
       /\ Track(Op("voice", sid, NULL, NULL, NULL, out.raised, out.written, 200))
       /\ UNCHANGED <<agents, campaignVars, concVars, bridgeVars>>

\* a call placed for a fresh call id; a successful dispatch starts the worker job
PlaceCall ==
  \E sid \in Sids, trunkOk \in BOOLEAN, insertOk \in BOOLEAN, dispatchOk \in BOOLEAN :
    LET out == InitiateOutboundCall(call_logs, sid, CallContact(sid), trunkOk, insertOk, dispatchOk)
    IN /\ agents[sid].pc = "none"
       /\ call_logs' = out.logs
       /\ agents' = [agents EXCEPT ![sid].pc = IF out.raised THEN "undispatched" ELSE "dispatched"]
       /\ Track(Op("place", sid, NULL, NULL, NULL, out.raised, FALSE, 0))
       /\ UNCHANGED <<campaignVars, concVars, bridgeVars>>

\* entrypoint of the worker job returning before it starts a session: the
\* metadata cannot be parsed, create_sip_participant raises (logged), or
\* the contact or the survey is not found; the call log is not touched
EntrypointReturns ==
  \E sid \in Sids :
    /\ agents[sid].pc = "dispatched"
    /\ agents' = [agents EXCEPT ![sid].pc = "aborted"]
    /\ Track(AgentOp("entrypoint", sid))
    /\ UNCHANGED <<call_logs, campaignVars, concVars, bridgeVars>>

OnEnter ==
  \E sid \in Sids, dbOk \in BOOLEAN :
    /\ agents[sid].pc = "dispatched"
    /\ call_logs' = OnEnterLogs(call_logs, sid, CallContact(sid), dbOk)
    /\ agents' = [agents EXCEPT ![sid].pc = "live"]
    /\ Track(AgentOp("on_enter", sid))
    /\ UNCHANGED <<campaignVars, concVars, bridgeVars>>

StoreConsent ==
  \E sid \in Sids, consent \in BOOLEAN, dbOk \in BOOLEAN :
    /\ agents[sid].pc = "live"
    /\ agents' = [agents EXCEPT ![sid].consent_given = consent]
    /\ call_logs' = IF dbOk THEN DbUpdate(call_logs, sid, [consent |-> consent]) ELSE call_logs
    /\ Track(AgentOp("store_consent", sid))
    /\ UNCHANGED <<campaignVars, concVars, bridgeVars>>

\* defect: only the answer of this tool call is written
StoreResponseLogsLastOnly(logs, sid, raw, dbOk) ==
  IF dbOk
  THEN DbUpdate(logs, sid, [raw_responses |-> StoredResponses(SubSeq(raw, Len(raw), Len(raw)))])
  ELSE logs
\* the update of store_response: the whole in-memory list is written; an
\* exception of the update is logged and swallowed
StoreResponseLogs(logs, sid, raw, dbOk) ==
  IF dbOk THEN DbUpdate(logs, sid, [raw_responses |-> StoredResponses(raw)]) ELSE logs

\* store_response, for a session of at most limit answers
RecordAnswer(limit) ==
  \E sid \in Sids, question_id \in QuestionIds, dbOk \in BOOLEAN :
    LET raw == Append(agents[sid].raw_responses,
                      [question_id |-> question_id, answer |-> "spoken"])
    IN /\ agents[sid].pc = "live"
       /\ Len(agents[sid].raw_responses) < limit
       /\ agents' = [agents EXCEPT ![sid].raw_responses = raw]
       /\ call_logs' = StoreResponseLogs(call_logs, sid, raw, dbOk)
       /\ Track(Op("store_response", sid, NULL, NULL, NULL, ~dbOk,
                   dbOk /\ Select(call_logs, sid) # {}, 0))
       /\ UNCHANGED <<campaignVars, concVars, bridgeVars>>

StoreResponse == RecordAnswer(MaxAnswers)

EndSurveyCall ==
  \E sid \in Sids, dbOk \in BOOLEAN :
    /\ agents[sid].pc = "live"
    /\ agents' = [agents EXCEPT ![sid].end_called = TRUE]
    /\ call_logs' = IF dbOk THEN DbUpdate(call_logs, sid, [status |-> "completed"]) ELSE call_logs
    /\ Track(AgentOp("end_survey_call", sid))
    /\ UNCHANGED <<campaignVars, concVars, bridgeVars>>

OnExit ==
  \E sid \in Sids, dbOk1 \in BOOLEAN, llm \in LlmOutcomes, dbOk2 \in BOOLEAN :
    /\ agents[sid].pc = "live"
    /\ agents' = [agents EXCEPT ![sid].pc = "exited"]
    /\ call_logs' = OnExitLogs(call_logs, sid, agents[sid].conversation_transcript,
                               agents[sid].raw_responses, dbOk1, llm, dbOk2)
    /\ Track(ExitOp(sid, dbOk1 /\ Select(call_logs, sid) # {},
                    MapperInvoked(agents[sid].raw_responses) /\ dbOk2
                      /\ Select(call_logs, sid) # {},
                    IF MapperInvoked(agents[sid].raw_responses) THEN llm ELSE "not_invoked"))
    /\ UNCHANGED <<campaignVars, concVars, bridgeVars>>

\* ------------------------------------------------------------ audio bridge
\* the two calls bridged at the same time, and their call ids
BridgeCalls == {1, 2}
BridgeSid(c) == 200 + c
\* largest telephony frame, in samples
MaxFrameSamples == 20

\* TWILIO_SAMPLE_RATE : OPENAI_SAMPLE_RATE, as ratecv reduces them
TwilioRate == 1
OpenaiRate == 3

\* the loop of audioop.ratecv over len input samples: an input sample is read
\* while d < 0 (d += outrate), an output sample written while d >= 0
\* (d -= inrate); it returns when the input is used up
RECURSIVE RateCvLoop(_, _, _, _, _)
RateCvLoop(inrate, outrate, d, len, out) ==
  IF d < 0
  THEN IF len = 0 THEN [out |-> out, d |-> d]
       ELSE RateCvLoop(inrate, outrate, d + outrate, len - 1, out)
  ELSE RateCvLoop(inrate, outrate, d - inrate, len, out + 1)
\* the value None of the resampler state (a state ratecv returns has d < 0)
NoneState == [d |-> 0, samples |-> 0]
\* audioop.ratecv(fragment, 2, 1, inrate, outrate, state): state None starts
\* at d = -outrate with zero samples; the state returned holds d and the
\* last samples of the fragment (here: whose audio they are)
RateCv(inrate, outrate, state, len, audio) ==
  LET d0 == IF state = NoneState THEN 0 - outrate ELSE state.d
      r == RateCvLoop(inrate, outrate, d0, len, 0)
  IN [out |-> r.out,
      state |-> [d |-> r.d, samples |-> IF len = 0 THEN state.samples ELSE audio]]

\* a frame on the wire: its decoded length in bytes and whether its base64
\* text decodes
Frame(bytes, b64) == [bytes |-> bytes, b64 |-> b64]
\* frames of the carrier: mu-law, one byte per sample
CarrierFrames == {Frame(2, TRUE), Frame(2, FALSE)}
\* frames of the speech pipeline: 16-bit samples, whole or cut in a sample
PipelineFrames == {Frame(2, TRUE), Frame(6, TRUE), Frame(3, TRUE), Frame(6, FALSE)}

\* twilio_to_openai: b64decode, ulaw2lin to 16-bit, ratecv 8000 -> 24000 with
\* state None; an exception is logged and raised again
TwilioToOpenai(frame) ==
  IF ~frame.b64 THEN [raised |-> TRUE, bytes |-> 0]
  ELSE [raised |-> FALSE,
        bytes |-> 2 * RateCv(TwilioRate, OpenaiRate, NoneState, frame.bytes, 0).out]

\* openai_to_twilio: b64decode, ratecv 24000 -> 8000 continuing from the
\* module's state and storing the new one, lin2ulaw; ratecv raises on a
\* buffer that is not a whole number of samples, the state is then kept
OpenaiToTwilio(state, frame, audio) ==
  IF ~frame.b64 \/ frame.bytes % 2 # 0
  THEN [raised |-> TRUE, bytes |-> 0, state |-> state]
  ELSE LET r == RateCv(OpenaiRate, TwilioRate, state, frame.bytes \div 2, audio)
       IN [raised |-> FALSE, bytes |-> r.out, state |-> r.state]

\* reset_conversion_state
ResetConversionState == NoneState

\* the handler of a call before Twilio connects
\* tw, oa: the pumps twilio_to_openai and openai_to_twilio; a side is
\* connected while its pump runs; first: no pipeline frame converted yet
NoBridge ==
  [pc |-> "idle", stream_sid |-> FALSE, tw |-> "idle", oa |-> "idle", first |-> TRUE]
\* after_drop: the step before was a drop by the same pump of the same call
BridgeStep(c, op, event, result, after_drop) ==
  [call |-> c, op |-> op, event |-> event, result |-> result, after_drop |-> after_drop]
AfterDrop(c, op) == bridgeOp.call = c /\ bridgeOp.op = op /\ bridgeOp.result = "dropped"
NoFrame == [stage |-> "none", n |-> 0, b64 |-> TRUE, pcm |-> 0, mulaw |-> 0]
InitBridgeIdle ==
  /\ openai_to_twilio_state = NoneState
  /\ ws = [c \in BridgeCalls |-> NoBridge]
  /\ bridgeOp = BridgeStep(0, "none", "none", "none", FALSE)
  /\ codec = NoFrame

\* voice_websocket up to "openai_ws = await websockets.connect(...)": accept,
\* the look-ups (a missing contact or survey closes the socket and returns),
\* reset_conversion_state
VoiceWebsocketSetup(c) ==
  \E found \in BOOLEAN :
    /\ ws[c].pc = "idle"
    /\ ws' = [ws EXCEPT ![c].pc = IF found THEN "connecting" ELSE "closed"]
    /\ openai_to_twilio_state' = IF found THEN ResetConversionState ELSE openai_to_twilio_state
    /\ bridgeOp' = BridgeStep(c, "setup", "accept", IF found THEN "reset" ELSE "closed", FALSE)
    /\ UNCHANGED <<codec, trackerVars, campaignVars, concVars>>

\* the connect returns and session.update and response.create are sent, then
\* both pumps start under asyncio.gather; an exception of the connect goes
\* to "except Exception" and the finally block
VoiceWebsocketConnect(c) ==
  \E ok \in BOOLEAN :
    /\ ws[c].pc = "connecting"
    /\ ws' = [ws EXCEPT ![c] =
         IF ok THEN [@ EXCEPT !.pc = "streaming", !.tw = "running", !.oa = "running"]
         ELSE [@ EXCEPT !.pc = "closed"]]
    /\ bridgeOp' = BridgeStep(c, "connect", "connect", IF ok THEN "streaming" ELSE "closed", FALSE)
    /\ UNCHANGED <<openai_to_twilio_state, codec, trackerVars, campaignVars, concVars>>

\* defect: a conversion error ends the pump
AfterConversionErrorStops(pump) == "raised"
\* "except Exception as e: logger.error(...)" around the conversion and the
\* send: the frame is dropped and the loop takes the next message
AfterConversionError(pump) == pump

\* one message of "async for message in websocket.iter_text()": start stores
\* the stream id and inserts the call log (a failure of the insert is
\* logged), media is converted and sent to the pipeline (the send raises
\* once the pipeline has closed), stop leaves the loop and a disconnect ends
\* the iteration, anything else is logged
TwilioEvents == {"start", "stop", "invalid"}
TwilioToOpenaiPump(c) ==
  /\ ws[c].pc = "streaming" /\ ws[c].tw = "running"
  /\ \/ \E event \in TwilioEvents, insertOk \in BOOLEAN :
          LET row == InitialRow(BridgeSid(c), c, "in_progress")
              inserted == event = "start" /\ insertOk /\ ~InsertRaises(call_logs, row)
          IN /\ ws' = [ws EXCEPT ![c] =
                  [@ EXCEPT !.stream_sid = @ \/ event = "start",
                            !.tw = IF event = "stop" THEN "done" ELSE @]]
             /\ call_logs' = IF inserted THEN DbInsert(call_logs, row) ELSE call_logs
             /\ bridgeOp' = BridgeStep(c, "twilio", event,
                                       IF inserted THEN "inserted" ELSE "none", FALSE)
             /\ UNCHANGED <<agents, lastOp, dup>>
     \/ \E frame \in CarrierFrames :
          LET r == TwilioToOpenai(frame)
              sent == ~r.raised /\ ws[c].oa = "running"
          IN /\ ws' = [ws EXCEPT ![c].tw = IF sent THEN @ ELSE AfterConversionError(@)]
             /\ bridgeOp' = BridgeStep(c, "twilio", "media",
                                       IF sent THEN "forwarded"
                                       ELSE IF r.raised THEN "dropped" ELSE "unsent",
                                       AfterDrop(c, "twilio"))
             /\ UNCHANGED trackerVars
  /\ UNCHANGED <<openai_to_twilio_state, codec, campaignVars, concVars>>

\* one message of "async for message in openai_ws": response.audio.delta is
\* converted and sent to Twilio once the stream id is known (the send raises
\* once Twilio has gone), the other events are logged; the iteration ends
\* when the connection closes and raises when it closes with an error
OpenaiEvents == {"other", "close", "close_error"}
OpenaiToTwilioPump(c) ==
  /\ ws[c].pc = "streaming" /\ ws[c].oa = "running"
  /\ \/ \E event \in OpenaiEvents :
          /\ ws' = [ws EXCEPT ![c].oa = CASE event = "close" -> "done"
                                          [] event = "close_error" -> "raised"
                                          [] OTHER -> @]
          /\ bridgeOp' = BridgeStep(c, "openai", event, "none", FALSE)
          /\ UNCHANGED openai_to_twilio_state
     \/ \E frame \in PipelineFrames :
          LET r == OpenaiToTwilio(openai_to_twilio_state, frame, c)
              sent == ~r.raised /\ ws[c].tw = "running"
          IN IF ~ws[c].stream_sid
             THEN /\ bridgeOp' = BridgeStep(c, "openai", "delta", "skipped", FALSE)
                  /\ UNCHANGED <<ws, openai_to_twilio_state>>
             ELSE /\ openai_to_twilio_state' = r.state
                  /\ ws' = [ws EXCEPT ![c] =
                       [@ EXCEPT !.oa = IF sent THEN @ ELSE AfterConversionError(@),
                                 !.first = @ /\ r.raised]]
                  /\ bridgeOp' = BridgeStep(c, "openai", "delta",
                                            IF sent THEN "forwarded"
                                            ELSE IF r.raised THEN "dropped" ELSE "unsent",
                                            AfterDrop(c, "openai"))
  /\ UNCHANGED <<codec, trackerVars, campaignVars, concVars>>

\* asyncio.gather returns when both pumps have returned and raises as soon
\* as one raises; the finally block closes the pipeline connection and the
\* carrier socket
GatherReturns(w) == (w.tw = "done" /\ w.oa = "done") \/ w.oa = "raised" \/ w.tw = "raised"
VoiceWebsocketTeardown(c) ==
  /\ ws[c].pc = "streaming" /\ GatherReturns(ws[c])
  /\ ws' = [ws EXCEPT ![c].pc = "closed"]
  /\ bridgeOp' = BridgeStep(c, "teardown", "finally", "closed", FALSE)
  /\ UNCHANGED <<openai_to_twilio_state, codec, trackerVars, campaignVars, concVars>>

\* a telephony frame taken through twilio_to_openai, and the result through
\* openai_to_twilio from a fresh state
ToPipeline ==
  /\ codec.stage = "frame"
  /\ LET r == TwilioToOpenai(Frame(codec.n, codec.b64))
     IN codec' = [codec EXCEPT !.stage = IF r.raised THEN "raised" ELSE "pipeline",
                               !.pcm = r.bytes]
  /\ UNCHANGED <<openai_to_twilio_state, ws, bridgeOp, trackerVars, campaignVars, concVars>>
ToCarrier ==
  /\ codec.stage = "pipeline"
  /\ codec' = [codec EXCEPT !.stage = "carrier",
                            !.mulaw = OpenaiToTwilio(ResetConversionState,
                                                     Frame(codec.pcm, TRUE), 0).bytes]
  /\ UNCHANGED <<openai_to_twilio_state, ws, bridgeOp, trackerVars, campaignVars, concVars>>

\* ------------------------------------------------------------------ initial
InitTracker ==
  /\ call_logs = {}
  /\ agents = [s \in Sids |-> NewAgent]
  /\ lastOp = NoOp
  /\ dup = FALSE
\* a contact row as the upload stores it
ContactRow(c) == [contact_id |-> c, call_status |-> NULL]
InitCampaign ==
  /\ surveys = "draft"
  /\ contact = [c \in 1..MaxContacts |-> ContactRow(c)]
  /\ tasks = <<>>
  /\ attempts = <<>>
  /\ launches = <<>>
\* the two handler slots and the notification a slot processes
Handlers == {1, 2}
Notification(kind, sid, status, duration, url, db) ==
  [kind |-> kind, sid |-> sid, status |-> status, duration |-> duration,
   url |-> url, db |-> db]
InitConc ==
  /\ hs = [h \in Handlers |-> [pc |-> "done", n |-> Notification("none", NoSid, NULL, NULL, NULL, "ok"),
                                existing |-> {}, overlapped |-> FALSE]]
  /\ log0 = {}
  /\ InitBridgeIdle

Init == InitTracker /\ InitCampaign /\ InitConc

Next ==
  \/ TwilioVoiceWebhook
  \/ TwilioStatusWebhook
  \/ TwilioRecordingWebhook
  \/ PlaceCall
  \/ EntrypointReturns
  \/ OnEnter
  \/ StoreConsent
  \/ StoreResponse
  \/ EndSurveyCall
  \/ OnExit

Spec == Init /\ [][Next]_vars

\* ------------------------------------------------------ one agent session
\* A call is placed and its agent session runs from on_enter to on_exit
\* while the carrier posts nothing.
StoreResponseInSession == RecordAnswer(MaxSessionAnswers)

NextAgent ==
  \/ PlaceCall
  \/ EntrypointReturns
  \/ OnEnter
  \/ StoreConsent
  \/ StoreResponseInSession
  \/ EndSurveyCall
  \/ OnExit

SpecAgent == Init /\ [][NextAgent]_vars

\* The worker runs a dispatched job, and a session that started ends: the
\* entrypoint eventually reaches on_enter unless it returns before, and
\* on_exit eventually runs.
SpecAgentFair == Init /\ [][NextAgent]_vars /\ WF_vars(OnEnter) /\ WF_vars(OnExit)

\* ---------------------------------------------------------------- campaigns
\* "assume 3 min per call on average"
PerCallMinutes == 3
\* call ids generated by uuid4 for the k-th placement of launch i, and the
\* "failed-<contact>-<timestamp>" id of process_single_call's error row
CampaignSid(i, k) == 100 * i + k
FailedSid(i, k) == 0 - CampaignSid(i, k)
ContactIdsOf(rows) == [j \in 1..Len(rows) |-> rows[j].contact_id]

\* close: the outcome of the status update that follows the loop of
\* execute_campaign_calls ("no" while it has not run)
\* inflight: calls of initiate_outbound_call awaited and not yet returned
\* sleeps: the asyncio.sleep(2) calls made
NoTask == [kind |-> "none", contacts |-> <<>>, idx |-> 1, pc |-> "done", sleeps |-> 0,
           close |-> "no", inflight |-> 0]
NewTask(kind, contacts) ==
  [kind |-> kind, contacts |-> contacts, idx |-> 1, pc |-> "running", sleeps |-> 0,
   close |-> "no", inflight |-> 0]
LaunchRecord(endpoint, seen, test_mode, http, total, minutes) ==
  [endpoint |-> endpoint, seen |-> seen, test_mode |-> test_mode, http |-> http,
   total_contacts |-> total, estimated_duration_minutes |-> minutes]

\* defect: test mode keeps the last contact of the list
TestModeContactsLast(all, test_mode) ==
  IF test_mode THEN SubSeq(all, Len(all), Len(all)) ELSE all
\* "if request.test_mode: contacts = contacts[:1]"
TestModeContacts(all, test_mode) == IF test_mode THEN SubSeq(all, 1, 1) ELSE all

\* defect: an empty selection passes the check
NoContactsIgnored(rows) == FALSE
\* "if not contacts_response.data" / "if not contacts"
NoContacts(rows) == rows = <<>>

\* defect: the estimate does not grow with the number of contacts
EstimatedDurationOfOneCall(contacts) == PerCallMinutes
\* "estimated_duration = len(contacts) * 3"
EstimatedDuration(contacts) == Len(contacts) * PerCallMinutes

\* launch_campaign: 404 for a survey of another user, 500 when provisioning
\* or the status update raises, 400 without contacts; otherwise the survey
\* is set active and execute_campaign_calls is queued with the contacts
LaunchCampaignOutcome(status, rows, test_mode, owned, provisionOk, updateOk) ==
  LET all == ContactIdsOf(rows)
      contacts == TestModeContacts(all, test_mode)
  IN IF ~owned THEN [http |-> 404, status |-> status, task |-> NoTask, total |-> 0, minutes |-> 0]
     ELSE IF ~provisionOk
     THEN [http |-> 500, status |-> status, task |-> NoTask, total |-> 0, minutes |-> 0]
     ELSE IF NoContacts(rows)
     THEN [http |-> 400, status |-> status, task |-> NoTask, total |-> 0, minutes |-> 0]
     ELSE IF ~updateOk
     THEN [http |-> 500, status |-> status, task |-> NoTask, total |-> 0, minutes |-> 0]
     ELSE [http |-> 200, status |-> "active", task |-> NewTask("execute", contacts),
           total |-> Len(contacts), minutes |-> EstimatedDuration(contacts)]

\* start_campaign: 404 from get_survey, 400 unless the survey is active, 400
\* without contacts; otherwise one process_single_call is queued per contact
StartCampaignOutcome(status, rows, owned) ==
  IF ~owned THEN [http |-> 404, task |-> NoTask, total |-> 0]
  ELSE IF status # "active" THEN [http |-> 400, task |-> NoTask, total |-> 0]
  ELSE IF NoContacts(rows) THEN [http |-> 400, task |-> NoTask, total |-> 0]
  ELSE [http |-> 200, task |-> NewTask("single", ContactIdsOf(rows)), total |-> Len(rows)]

LaunchCampaign ==
  \E test_mode \in BOOLEAN, owned \in BOOLEAN, provisionOk \in BOOLEAN, updateOk \in BOOLEAN :
    LET out == LaunchCampaignOutcome(surveys, contact, test_mode, owned, provisionOk, updateOk)
    IN /\ Len(launches) < MaxLaunches
       /\ surveys' = out.status
       /\ tasks' = Append(tasks, out.task)
       /\ attempts' = Append(attempts, <<>>)
       /\ launches' = Append(launches, LaunchRecord("launch", surveys, test_mode, out.http,
                                                    out.total, out.minutes))
       /\ UNCHANGED <<contact, trackerVars, concVars, bridgeVars>>

StartCampaign ==
  \E owned \in BOOLEAN :
    LET out == StartCampaignOutcome(surveys, contact, owned)
    IN /\ Len(launches) < MaxLaunches
       /\ tasks' = Append(tasks, out.task)
       /\ attempts' = Append(attempts, <<>>)
       /\ launches' = Append(launches, LaunchRecord("start", surveys, FALSE, out.http,
                                                    out.total, 0))
       /\ UNCHANGED <<surveys, contact, trackerVars, concVars, bridgeVars>>

\* defect: an exception ends the loop
NextIndexStopping(idx, n, raised) == IF raised THEN n + 1 ELSE idx + 1
\* the loop of execute_campaign_calls, and the task queue filled by
\* start_campaign, go on to the next contact after an exception
NextIndex(idx, n, raised) == idx + 1

\* db.table("contact").update({"call_status": "failed", ...}).eq("contact_id", c)
MarkContactFailed(rows, c) ==
  [j \in 1..Len(rows) |->
     IF rows[j].contact_id = c THEN [rows[j] EXCEPT !.call_status = "failed"] ELSE rows[j]]

\* defect: the status update sits inside the loop body
SurveyAfterLoopEveryIteration(status, finished, closeOk) ==
  IF closeOk THEN "closed" ELSE status
\* db.table("surveys").update({"status": "closed"}) after the for loop; an
\* exception of the update is logged and swallowed
SurveyAfterLoop(status, finished, closeOk) ==
  IF finished /\ closeOk THEN "closed" ELSE status

\* defect: the next placement is started without awaiting the one before
CanStartPlacementUnawaited(t) == t.inflight < 2
\* "await initiate_outbound_call(...)" in the loop body, and the background
\* tasks of one response run one after the other: the next placement is
\* reached when none is awaited
CanStartPlacement(t) == t.inflight = 0

\* the loop of execute_campaign_calls, or the next process_single_call,
\* calls initiate_outbound_call for the contact at idx
StartPlacement(i) ==
  /\ tasks[i].kind \in {"execute", "single"} /\ tasks[i].pc = "running"
  /\ CanStartPlacement(tasks[i])
  /\ tasks' = [tasks EXCEPT ![i].inflight = @ + 1]
  /\ UNCHANGED <<surveys, contact, attempts, launches, trackerVars, concVars, bridgeVars>>

\* sleeps after the placement at idx of n: "if idx < len(contacts): await
\* asyncio.sleep(2)" follows the call inside the try block, so an exception
\* of the call skips it
SleepsAfter(idx, n, raised) == IF ~raised /\ idx < n THEN 1 ELSE 0

\* the rest of one iteration of "for idx, contact in enumerate(contacts, 1)"
\* of execute_campaign_calls, from the return of initiate_outbound_call;
\* after the last one the survey is set closed
ExecuteCampaignCalls(i) ==
  \E trunkOk \in BOOLEAN, insertOk \in BOOLEAN, dispatchOk \in BOOLEAN,
     markOk \in BOOLEAN, closeOk \in BOOLEAN :
    LET t == tasks[i]
        n == Len(t.contacts)
        c == t.contacts[t.idx]
        out == InitiateOutboundCall(call_logs, CampaignSid(i, t.idx), c,
                                    trunkOk, insertOk, dispatchOk)
        next == NextIndex(t.idx, n, out.raised)
    IN /\ t.kind = "execute" /\ t.pc = "running" /\ t.inflight > 0
       /\ call_logs' = out.logs
       /\ attempts' = [attempts EXCEPT ![i] = Append(@, [contact_id |-> c, raised |-> out.raised])]
       /\ contact' = IF out.raised /\ markOk THEN MarkContactFailed(contact, c) ELSE contact
       /\ tasks' = [tasks EXCEPT ![i] =
             [@ EXCEPT !.idx = next,
                       !.sleeps = @ + SleepsAfter(t.idx, n, out.raised),
                       !.inflight = @ - 1,
                       !.pc = IF next > n THEN "done" ELSE "running",
                       !.close = IF next > n
                                 THEN (IF closeOk THEN "stored" ELSE "raised")
                                 ELSE "no"]]
       /\ surveys' = SurveyAfterLoop(surveys, next > n, closeOk)
       /\ UNCHANGED <<launches, agents, lastOp, dup, concVars, bridgeVars>>

\* the row of process_single_call's except branch; the columns it does not
\* name take the defaults the creators write
FailedRow(sid, c) == [InitialRow(sid, c, "failed") EXCEPT !.raw_transcript = "error"]

\* the next queued process_single_call of a start_campaign request, from
\* the return of initiate_outbound_call
ProcessSingleCall(i) ==
  \E trunkOk \in BOOLEAN, insertOk \in BOOLEAN, dispatchOk \in BOOLEAN, logOk \in BOOLEAN :
    LET t == tasks[i]
        n == Len(t.contacts)
        c == t.contacts[t.idx]
        out == InitiateOutboundCall(call_logs, CampaignSid(i, t.idx), c,
                                    trunkOk, insertOk, dispatchOk)
        next == NextIndex(t.idx, n, out.raised)
    IN /\ t.kind = "single" /\ t.pc = "running" /\ t.inflight > 0
       /\ call_logs' = IF out.raised /\ logOk
                        THEN DbInsert(out.logs, FailedRow(FailedSid(i, t.idx), c))
                        ELSE out.logs
       /\ attempts' = [attempts EXCEPT ![i] = Append(@, [contact_id |-> c, raised |-> out.raised])]
       /\ tasks' = [tasks EXCEPT ![i] =
             [@ EXCEPT !.idx = next, !.pc = IF next > n THEN "done" ELSE "running",
                       !.inflight = @ - 1]]
       /\ UNCHANGED <<surveys, contact, launches, agents, lastOp, dup, concVars, bridgeVars>>

\* get_campaign_status: the logs of the survey's contacts counted by status
\* (only completed, in_progress and failed have a counter), pending is the
\* number of contacts minus the three counters
GetCampaignStatus(rows, logs) ==
  LET ids == {rows[j].contact_id : j \in 1..Len(rows)}
      mine == {r \in logs : r.contact_id \in ids}
      count(st) == Cardinality({r \in mine : r.status = st})
  IN [total_contacts |-> Len(rows),
      completed_calls |-> count("completed"),
      in_progress_calls |-> count("in_progress"),
      failed_calls |-> count("failed"),
      pending_calls |-> Len(rows) - (count("completed") + count("in_progress") + count("failed"))]

\* activate_survey: rejected when the survey is already active
ActivateSurvey ==
  /\ surveys # "active"
  /\ surveys' = "active"
  /\ UNCHANGED <<contact, tasks, attempts, launches, trackerVars, concVars, bridgeVars>>

\* deactivate_survey
DeactivateSurvey ==
  /\ surveys # "closed"
  /\ surveys' = "closed"
  /\ UNCHANGED <<contact, tasks, attempts, launches, trackerVars, concVars, bridgeVars>>

NextCampaign ==
  \/ LaunchCampaign
  \/ StartCampaign
  \/ \E i \in 1..Len(tasks) : StartPlacement(i)
  \/ \E i \in 1..Len(tasks) : ExecuteCampaignCalls(i)
  \/ \E i \in 1..Len(tasks) : ProcessSingleCall(i)
  \/ ActivateSurvey
  \/ DeactivateSurvey

\* the contact table when the first launch request arrives: nothing
\* uploaded yet, or an upload of up to MaxContacts rows
ContactTables == {[c \in 1..n |-> ContactRow(c)] : n \in 0..MaxContacts}
InitLaunch ==
  /\ InitTracker
  /\ InitConc
  /\ surveys = "draft"
  /\ contact \in ContactTables
  /\ tasks = <<>>
  /\ attempts = <<>>
  /\ launches = <<>>

SpecCampaign == InitLaunch /\ [][NextCampaign]_vars

\* One launch request followed from its arrival to the end of the work it
\* queued, while the survey may be activated and deactivated; requests that
\* overlap an earlier launch belong to SpecCampaign.
LaunchRequest == launches = <<>> /\ (LaunchCampaign \/ StartCampaign)

NextLaunch ==
  \/ LaunchRequest
  \/ \E i \in 1..Len(tasks) : StartPlacement(i)
  \/ \E i \in 1..Len(tasks) : ExecuteCampaignCalls(i)
  \/ \E i \in 1..Len(tasks) : ProcessSingleCall(i)
  \/ ActivateSurvey
  \/ DeactivateSurvey

SpecLaunch == InitLaunch /\ [][NextLaunch]_vars

\* upload_contacts: 404 from get_survey for a survey of another user; then
\* the survey's contacts are deleted; then the CSV is parsed (400 when it
\* cannot be read, has no phone_number column or no row with a phone
\* number) and the rows are inserted (500 when the insert raises)
CsvFiles == {"unparseable", "no_column", "no_valid_rows", "rows"}
UploadOutcome(rows, owned, csv, n, insertOk) ==
  IF ~owned THEN [http |-> 404, rows |-> rows]
  ELSE IF csv # "rows" THEN [http |-> 400, rows |-> <<>>]
  ELSE IF ~insertOk THEN [http |-> 500, rows |-> <<>>]
  ELSE [http |-> 200, rows |-> [c \in 1..n |-> ContactRow(c)]]
UploadContactsAs(owned, csv, n, insertOk) ==
  /\ contact' = UploadOutcome(contact, owned, csv, n, insertOk).rows
  /\ UNCHANGED <<surveys, tasks, attempts, launches, trackerVars, concVars, bridgeVars>>
UploadContacts ==
  \E owned \in BOOLEAN, csv \in CsvFiles, n \in 1..MaxContacts, insertOk \in BOOLEAN :
    UploadContactsAs(owned, csv, n, insertOk)

\* One launch request while the owner uploads contact lists.
NextUpload == NextLaunch \/ UploadContacts
SpecUpload == InitLaunch /\ [][NextUpload]_vars

\* A queued execute_campaign_calls runs on the server's event loop: every
\* await of its loop (initiate_outbound_call, asyncio.sleep) returns, so a
\* task with an iteration left eventually runs it.
ExecuteStep(i) == i <= Len(tasks) /\ (StartPlacement(i) \/ ExecuteCampaignCalls(i))
SpecLaunchFair ==
  InitLaunch /\ [][NextLaunch]_vars /\ \A i \in 1..MaxLaunches : WF_vars(ExecuteStep(i))

\* ------------------------------------------- concurrent notification handlers
\* Two requests to the webhook endpoints run as coroutines of one event loop;
\* each storage call (.execute()) is one step, the select and the update of a
\* handler may be separated by steps of the other handler.
Notifications ==
  {Notification("status", q.sid, q.status, q.duration, q.url, q.db) : q \in StatusRequests}
  \cup {Notification("recording", q.sid, q.status, NULL, q.url, q.db) : q \in RecordingRequests}

\* the handler reaches its select: required fields present, duration parsed
ReachesSelect(n) ==
  IF n.kind = "status"
  THEN n.sid # NoSid /\ n.status # NULL /\ ~DurationRaises(n.duration)
  ELSE n.status = "completed" /\ n.url # NULL /\ n.sid # NoSid
\* the update payload of the handler
NotificationData(n) ==
  IF n.kind = "status"
  THEN StatusUpdateData(ToDbStatus(n.status), n.duration, n.url)
  ELSE [recording_url |-> n.url]
\* the whole handler run without interruption
ApplyNotification(logs, n) ==
  IF n.kind = "status"
  THEN StatusOutcome(logs, n.sid, n.status, n.duration, n.url,
                     n.db # "read_raises", n.db # "write_raises").logs
  ELSE RecordingOutcome(logs, n.sid, n.url, n.status,
                        n.db # "read_raises", n.db # "write_raises").logs

\* up to and including existing = db.table("call_logs").select(...).execute()
HandlerSelect(h) ==
  /\ hs[h].pc = "start"
  /\ hs' = [hs EXCEPT ![h] =
       IF ReachesSelect(hs[h].n) /\ hs[h].n.db # "read_raises"
       THEN [@ EXCEPT !.pc = "selected",
                      !.existing = Select(call_logs, hs[h].n.sid),
                      !.overlapped = \E g \in Handlers \ {h} : hs[g].pc = "selected"]
       ELSE [@ EXCEPT !.pc = "done"]]
  /\ UNCHANGED <<call_logs, log0, trackerVars, campaignVars, bridgeVars>>

\* "if existing.data:" and the update, or the skip of the else branch
HandlerUpdate(h) ==
  LET n == hs[h].n
  IN /\ hs[h].pc = "selected"
     /\ hs' = [hs EXCEPT ![h].pc = "done"]
     /\ call_logs' =
          IF hs[h].existing = {}
          THEN IF n.kind = "status"
               THEN StatusWhenMissing(call_logs, n.sid, NotificationData(n))
               ELSE RecordingWhenMissing(call_logs, n.sid, NotificationData(n))
          ELSE IF n.db = "write_raises" THEN call_logs
          ELSE DbUpdate(call_logs, n.sid, NotificationData(n))
     /\ UNCHANGED <<log0, agents, lastOp, dup, campaignVars, bridgeVars>>

\* the tables a call can have when its notifications start to arrive: no
\* row, the row of initiate_outbound_call, the row of on_enter
StartTables ==
  {{}} \cup {{InitialRow(sid, CallContact(sid), st)} :
               sid \in Sids, st \in {"initiated", "in_progress"}}

InitHandlers ==
  /\ agents = [s \in Sids |-> NewAgent]
  /\ lastOp = NoOp
  /\ dup = FALSE
  /\ InitCampaign
  /\ call_logs \in StartTables
  /\ log0 = call_logs
  /\ InitBridgeIdle
  /\ hs \in [Handlers -> {[pc |-> "start", n |-> n, existing |-> {}, overlapped |-> FALSE] :
                             n \in Notifications}]

NextHandlers == \E h \in Handlers : HandlerSelect(h) \/ HandlerUpdate(h)

SpecHandlers == InitHandlers /\ [][NextHandlers]_vars

\* C7: when two notification handlers for one call id have both finished,
\* however their selects and updates were interleaved, the table is the one
\* that processing the two notifications one after the other, in one of the
\* two orders, produces.
C7_Serializable ==
  (\A h \in Handlers : hs[h].pc = "done")
  => \/ call_logs = ApplyNotification(ApplyNotification(log0, hs[1].n), hs[2].n)
     \/ call_logs = ApplyNotification(ApplyNotification(log0, hs[2].n), hs[1].n)
\* both handlers finished after the second select ran between the first
\* handler's select and update, and both updates were written
C7_Witness ==
  /\ \A h \in Handlers : hs[h].pc = "done" /\ hs[h].existing # {} /\ hs[h].n.db = "ok"
  /\ \E h \in Handlers : hs[h].overlapped
  /\ hs[1].n.kind # hs[2].n.kind
  /\ call_logs # log0

\* ======================================================================
\* Call Lifecycle Tracker: properties checked under Spec
\* ======================================================================
SidsOf(logs) == {r.twilio_call_sid : r \in logs}
\* r2 agrees with r on every column outside fields
SameExcept(r, r2, fields) == \A f \in (DOMAIN r) \ fields : r2[f] = r[f]
\* the step kept the set of rows and changed at most the named columns
OnlyColumnsChange(fields) ==
  /\ SidsOf(call_logs') = SidsOf(call_logs)
  /\ \A r \in call_logs : \E r2 \in Select(call_logs', r.twilio_call_sid) :
        SameExcept(r, r2, fields)
\* a notification with every required field that ran without exception
ValidStatusOp(o) == o.op = "status" /\ o.sid # NoSid /\ o.status # NULL /\ ~o.raised
ValidRecordingOp(o) ==
  o.op = "recording" /\ o.sid # NoSid /\ o.status = "completed" /\ o.url # NULL /\ ~o.raised

\* C1: once a call log's status is completed, failed, busy or no_answer, a
\* later status notification carrying ringing or in-progress for that call id
\* leaves the status unchanged.
C1_TerminalNeverOverwritten ==
  [][\A r \in call_logs :
       (/\ r.status \in TerminalStatuses
        /\ ValidStatusOp(lastOp')
        /\ lastOp'.sid = r.twilio_call_sid
        /\ ToDbStatus(lastOp'.status) \in NonTerminalStatuses)
       => \E r2 \in Select(call_logs', r.twilio_call_sid) : r2.status = r.status]_vars

\* C2: a status or recording notification for a call id without a call log
\* creates the log in the state the notification implies (status and
\* duration, or the recording reference).
C2_MissingLogCreated ==
  [][/\ (ValidStatusOp(lastOp') /\ Select(call_logs, lastOp'.sid) = {})
        => \E r \in Select(call_logs', lastOp'.sid) :
              /\ r.status = ToDbStatus(lastOp'.status)
              /\ r.call_duration = ParseDuration(lastOp'.duration)
     /\ (ValidRecordingOp(lastOp') /\ Select(call_logs, lastOp'.sid) = {})
        => \E r \in Select(call_logs', lastOp'.sid) : r.recording_url = lastOp'.url]_vars

\* C3: a status notification that repeats the one just applied (same call
\* id, status, duration and recording url) leaves the table as it is.
C3_StatusIdempotent == [][dup' => call_logs' = call_logs]_vars
\* the same written status notification was applied twice in a row
C3_Witness ==
  /\ dup
  /\ \E r \in Select(call_logs, lastOp.sid) :
        r.status = ToDbStatus(lastOp.status) /\ r.call_duration = 12

\* C4: when a recording-ready notification and a status=completed
\* notification for one call id have been processed one right after the
\* other, in either order, the call log has status completed, the reported
\* duration and the recording reference.
C4_BothPopulatedAnyOrder ==
  [][LET cur == Note(lastOp')
         prev == Note(lastOp)
         done == IF cur.kind = "completed" THEN cur ELSE prev
         rec == IF cur.kind = "recording" THEN cur ELSE prev
     IN (/\ {cur.kind, prev.kind} = {"recording", "completed"}
         /\ cur.sid = prev.sid
         /\ done.url = NULL)
        => \E r \in Select(call_logs', cur.sid) :
              /\ r.status = "completed"
              /\ r.call_duration = ParseDuration(done.duration)
              /\ r.recording_url = rec.url]_vars

\* C5 as stated: a status notification changes only status and duration, a
\* recording notification only the recording reference.
C5_StatusOnlyStatusDuration ==
  [][/\ lastOp'.op = "status" => OnlyColumnsChange({"status", "call_duration"})
     /\ lastOp'.op = "recording" => OnlyColumnsChange({"recording_url"})]_vars
\* C5 amended: a status notification changes only status and duration and,
\* when it carries a RecordingUrl, the recording reference (set to that
\* url); a recording notification changes only the recording reference.
C5_FrameWithRecordingUrl ==
  [][/\ (lastOp'.op = "status" /\ lastOp'.url = NULL)
        => OnlyColumnsChange({"status", "call_duration"})
     /\ (lastOp'.op = "status" /\ lastOp'.url # NULL)
        => /\ OnlyColumnsChange({"status", "call_duration", "recording_url"})
           /\ lastOp'.written
              => \A r \in Select(call_logs', lastOp'.sid) : r.recording_url = lastOp'.url
     /\ lastOp'.op = "recording" => OnlyColumnsChange({"recording_url"})]_vars
\* a status notification with a RecordingUrl was written to a log that holds
\* consent and an answer
C5_Witness ==
  /\ lastOp.op = "status" /\ lastOp.written /\ lastOp.url # NULL
  /\ \E r \in Select(call_logs, lastOp.sid) :
        r.consent /\ r.raw_responses # <<>> /\ r.recording_url = lastOp.url

\* C6: the status and recording endpoints answer 200 to every request.
C6_AlwaysAcknowledged ==
  lastOp.op \in {"status", "recording"} => lastOp.http = 200
\* a request whose processing raised inside the handler was answered
C6_Witness == lastOp.op \in {"status", "recording"} /\ lastOp.raised

\* C8: when end_survey_call was never invoked, the agent's exit logic leaves
\* a terminal status already recorded by the carrier as it is.
C8_ExitKeepsCarrierStatus ==
  [][\A r \in call_logs :
       (/\ lastOp'.op = "on_exit"
        /\ lastOp'.sid = r.twilio_call_sid
        /\ ~agents[r.twilio_call_sid].end_called
        /\ r.status \in TerminalStatuses)
       => \E r2 \in Select(call_logs', r.twilio_call_sid) : r2.status = r.status]_vars

\* ======================================================================
\* Campaign Dispatcher: properties checked under SpecCampaign and SpecLaunch
\* ======================================================================
\* C9: a launch request is accepted only when the survey is active; for a
\* draft or closed survey it is rejected, queues no work and leaves the
\* survey's status as it was.
C9_LaunchOnlyWhenActive ==
  [][Len(launches') = Len(launches) + 1
     => LET l == launches'[Len(launches')]
        IN /\ l.http = 200 => l.seen = "active"
           /\ l.seen # "active"
              => /\ l.http # 200
                 /\ tasks'[Len(tasks')].kind = "none"
                 /\ surveys' = surveys]_vars

\* C10: the placement attempts of a launch are the dispatched contacts in
\* list order, each once, and a finished dispatch has attempted all of them,
\* whether or not an earlier placement raised.
C10_OneAttemptPerContact ==
  \A i \in 1..Len(tasks) :
    /\ Len(attempts[i]) <= Len(tasks[i].contacts)
    /\ \A k \in 1..Len(attempts[i]) : attempts[i][k].contact_id = tasks[i].contacts[k]
    /\ tasks[i].pc = "done" => Len(attempts[i]) = Len(tasks[i].contacts)
\* a dispatch over at least two contacts finished although a placement
\* before the last one raised
C10_Witness ==
  \E i \in 1..Len(tasks) :
    /\ tasks[i].pc = "done" /\ tasks[i].kind = "execute"
    /\ Len(attempts[i]) >= 2
    /\ \E k \in 1..(Len(attempts[i]) - 1) : attempts[i][k].raised

\* the call ids launch i can have written: the ids of its placements and the
\* ids of process_single_call's error rows
LaunchSids(i) ==
  {CampaignSid(i, k) : k \in 1..MaxContacts} \cup {FailedSid(i, k) : k \in 1..MaxContacts}
\* the placements of launch i that raised
RaisedAttempts(i) == {k \in 1..Len(attempts[i]) : attempts[i][k].raised}

\* C11: every placement that raised has a call log with status failed for
\* its contact, so a finished dispatch with k raised placements has exactly
\* k call logs in status failed.
C11_FailedPlacementLogged ==
  \A i \in 1..Len(tasks) :
    /\ \A k \in RaisedAttempts(i) :
         \E r \in call_logs : /\ r.twilio_call_sid \in LaunchSids(i)
                              /\ r.contact_id = attempts[i][k].contact_id
                              /\ r.status = "failed"
    /\ tasks[i].pc = "done"
       => Cardinality({r \in call_logs : r.twilio_call_sid \in LaunchSids(i) /\ r.status = "failed"})
          = Cardinality(RaisedAttempts(i))

\* launch i queued execute_campaign_calls
ExecuteQueued(i) == i <= Len(tasks) /\ tasks[i].kind = "execute"
\* ... and the task has not finished its loop
ExecuteRunning(i) == ExecuteQueued(i) /\ tasks[i].pc = "running"
\* a step of the execute_campaign_calls task of launch i
ExecuteStepped(i) == tasks[i].kind = "execute" /\ tasks'[i] # tasks[i]

\* C12 as stated: the step in which the last contact's attempt returns sets
\* the survey closed, no earlier step of the dispatcher touches the status,
\* and every dispatch that was queued leads to a closed survey.
C12_ClosedAfterLastAttempt ==
  /\ [][\A i \in 1..Len(tasks) :
          ExecuteStepped(i)
          => IF tasks'[i].pc = "done" THEN surveys' = "closed" ELSE surveys' = surveys]_vars
  /\ \A i \in 1..MaxLaunches : ExecuteRunning(i) ~> (surveys = "closed")
\* C12 amended: the dispatcher touches the status only in the step in which
\* the last contact's attempt returns; that step sets the survey closed
\* unless the storage update raises, which leaves the status as it was; and
\* every queued dispatch eventually gets there, whatever its placements did.
C12_ClosedUnlessUpdateRaises ==
  /\ [][\A i \in 1..Len(tasks) :
          ExecuteStepped(i)
          => IF tasks'[i].pc = "done"
             THEN /\ Len(attempts'[i]) = Len(tasks[i].contacts)
                  /\ tasks'[i].close \in {"stored", "raised"}
                  /\ tasks'[i].close = "stored" => surveys' = "closed"
                  /\ tasks'[i].close = "raised" => surveys' = surveys
             ELSE surveys' = surveys /\ tasks'[i].close = "no"]_vars
  /\ \A i \in 1..MaxLaunches :
       ExecuteRunning(i)
       ~> (/\ ExecuteQueued(i)
           /\ \/ tasks[i].close = "raised"
              \/ tasks[i].close = "stored" /\ surveys = "closed")
\* a dispatch over at least two contacts whose placements all raised has
\* closed the survey
C12_Witness ==
  \E i \in 1..Len(tasks) :
    /\ tasks[i].kind = "execute" /\ tasks[i].close = "stored" /\ surveys = "closed"
    /\ Len(attempts[i]) >= 2
    /\ \A k \in 1..Len(attempts[i]) : attempts[i][k].raised

\* launch i was accepted by launch_campaign with the test-mode flag set
TestLaunch(i) ==
  launches[i].endpoint = "launch" /\ launches[i].test_mode /\ launches[i].http = 200

\* C13: a launch in test mode hands the dispatcher the first contact of the
\* list only: total_contacts is 1, at most one placement is made, it is for
\* that contact, and the finished dispatch has made exactly one.
C13_TestModeFirstContactOnly ==
  \A i \in 1..Len(launches) :
    TestLaunch(i)
    => /\ tasks[i].contacts = <<contact[1].contact_id>>
       /\ launches[i].total_contacts = 1
       /\ Len(attempts[i]) <= 1
       /\ \A k \in 1..Len(attempts[i]) : attempts[i][k].contact_id = contact[1].contact_id
       /\ tasks[i].pc = "done" => Len(attempts[i]) = 1
\* a test-mode launch of a survey with several contacts has finished
C13_Witness ==
  \E i \in 1..Len(launches) :
    TestLaunch(i) /\ Len(contact) >= 2 /\ tasks[i].pc = "done" /\ Len(attempts[i]) = 1

\* C14: a launch request for a survey without contacts is rejected, leaves
\* the survey's status and the call logs as they were and queues no
\* dispatcher work.
C14_NoContactsRejected ==
  [][(Len(launches') = Len(launches) + 1 /\ contact = <<>>)
     => LET l == launches'[Len(launches')]
        IN /\ l.http \in {400, 404, 500}
           /\ surveys' = surveys
           /\ tasks'[Len(tasks')] = NoTask
           /\ attempts'[Len(attempts')] = <<>>
           /\ call_logs' = call_logs]_vars
\* launch_campaign answered 400 for a survey without contacts
C14_Witness ==
  /\ contact = <<>>
  /\ \E i \in 1..Len(launches) :
       /\ launches[i].endpoint = "launch" /\ launches[i].http = 400
       /\ tasks[i] = NoTask /\ surveys = launches[i].seen

\* C15: when launch_campaign answers, no placement of the launch has been
\* made (the dispatcher is queued, at its first contact, and the call logs
\* are untouched), and the estimated duration it answers is 3 minutes times
\* the number of contacts handed to the dispatcher.
C15_ReturnsBeforeDispatch ==
  [][Len(launches') = Len(launches) + 1
     => LET i == Len(launches')
            l == launches'[i]
        IN (l.endpoint = "launch" /\ l.http = 200)
           => /\ attempts'[i] = <<>>
              /\ tasks'[i].kind = "execute" /\ tasks'[i].pc = "running" /\ tasks'[i].idx = 1
              /\ call_logs' = call_logs
              /\ l.total_contacts = Len(tasks'[i].contacts)
              /\ l.estimated_duration_minutes = PerCallMinutes * Len(tasks'[i].contacts)]_vars
\* an accepted launch of several contacts answered and nothing was placed yet
C15_Witness ==
  \E i \in 1..Len(launches) :
    /\ launches[i].endpoint = "launch" /\ launches[i].http = 200
    /\ Len(tasks[i].contacts) >= 2
    /\ launches[i].estimated_duration_minutes = PerCallMinutes * Len(tasks[i].contacts)
    /\ attempts[i] = <<>>

\* ======================================================================
\* Conversation Agent: properties checked under SpecAgent
\* ======================================================================
\* the persisted raw_responses never get shorter
RawCountNeverDecreases ==
  \A r \in call_logs : \E r2 \in Select(call_logs', r.twilio_call_sid) :
     Len(r2.raw_responses) >= Len(r.raw_responses)

MatchesRaw(mapped, raw) ==
  /\ Len(mapped) = Len(raw)
  /\ \A i \in 1..Len(raw) : mapped[i].question_id = raw[i].question_id

\* C17: whatever the mapping model answered, the mapped_responses that
\* on_exit persists for a call with k >= 1 answers have k entries, entry i
\* with the question id of answer i.
C17_MappedMatchesRaw ==
  [][(lastOp'.op = "on_exit" /\ lastOp'.mapping_written)
     => \E r \in Select(call_logs', lastOp'.sid) :
           MatchesRaw(r.mapped_responses, agents[lastOp'.sid].raw_responses)]_vars

\* the identity mapping of the captured answers
IdentityMapping(raw) ==
  [i \in 1..Len(raw) |-> [question_id |-> raw[i].question_id, mapped_response |-> raw[i].answer]]

\* C18: when the mapping model is unreachable or its output cannot be
\* parsed, the mapped_responses written by on_exit are the identity mapping
\* of the captured answers: same length, same order, same question ids,
\* value equal to the raw answer.
C18_FallbackIsIdentity ==
  [][(/\ lastOp'.op = "on_exit"
      /\ lastOp'.mapper \in {"error", "malformed"}
      /\ lastOp'.mapping_written)
     => \E r \in Select(call_logs', lastOp'.sid) :
           /\ r.mapped_responses = IdentityMapping(agents[lastOp'.sid].raw_responses)
           /\ Len(r.mapped_responses) = Len(agents[lastOp'.sid].raw_responses)]_vars
\* a call with two answers ended while the model's output was unparsable
C18_Witness ==
  /\ lastOp.op = "on_exit" /\ lastOp.mapper = "malformed" /\ lastOp.mapping_written
  /\ \E r \in Select(call_logs, lastOp.sid) :
        /\ Len(r.mapped_responses) = 2
        /\ \A i \in 1..2 : r.mapped_responses[i].mapped_response = "spoken"

\* the row of the exiting call holds the transcript on_exit built and the
\* status it writes with it
TranscriptStored(logs, sid) ==
  \E r \in Select(logs, sid) :
     /\ r.raw_transcript = BuildTranscript(agents[sid].conversation_transcript)
     /\ r.status = "completed"
\* the mapper ran exactly when an answer had been captured, and a call
\* without answers keeps empty mapped_responses
MapperIffAnswers(o, raw, logs) ==
  /\ (o.mapper # "not_invoked") <=> (raw # <<>>)
  /\ raw = <<>> => \A r \in Select(logs, o.sid) : r.mapped_responses = <<>>

C20_TranscriptHoldsTurns ==
  [][(/\ lastOp'.op = "on_exit"
      /\ lastOp'.transcript_written
      /\ agents[lastOp'.sid].raw_responses # <<>>)
     => \E r \in Select(call_logs', lastOp'.sid) : r.raw_transcript # ""]_vars

\* C21: store_response records an answer only for a call whose consent was
\* recorded as true before; a call whose agent holds consent false ends
\* with no raw and no mapped responses and consent false in its log.
C21_AnswersOnlyAfterConsent ==
  [][/\ lastOp'.op = "store_response" => agents[lastOp'.sid].consent_given
     /\ \A sid \in Sids :
          (agents'[sid].pc = "exited" /\ ~agents'[sid].consent_given)
          => /\ agents'[sid].raw_responses = <<>>
             /\ \A r \in Select(call_logs', sid) :
                   r.raw_responses = <<>> /\ r.mapped_responses = <<>> /\ ~r.consent]_vars

\* ======================================================================
\* Consent and status of a call log: properties checked under Spec
\* ======================================================================
\* C22: every creator writes a call log with consent false, and a step
\* turns the flag of a log from false to true only if it is
\* store_consent(true) of that call id.
C22_ConsentOnlyByStoreConsent ==
  [][/\ \A r2 \in call_logs' :
          Select(call_logs, r2.twilio_call_sid) = {} => ~r2.consent
     /\ \A r \in call_logs : \A r2 \in Select(call_logs', r.twilio_call_sid) :
          (~r.consent /\ r2.consent)
          => /\ lastOp'.op = "store_consent"
             /\ lastOp'.sid = r.twilio_call_sid
             /\ agents'[lastOp'.sid].consent_given]_vars
\* a log created by the voice webhook got its consent from store_consent
\* and kept it through a written status notification
C22_Witness ==
  /\ lastOp.op = "status" /\ lastOp.written
  /\ \E r \in Select(call_logs, lastOp.sid) : r.consent /\ r.status = "completed"
  /\ agents[lastOp.sid].consent_given

\* ======================================================================
\* Audio bridge: two calls bridged by voice_websocket at the same time
\* ======================================================================
\* The handlers are coroutines of one event loop: a step runs from one await
\* to the next, the steps of the two calls interleave.
NextBridge ==
  \E c \in BridgeCalls :
    \/ VoiceWebsocketSetup(c)
    \/ VoiceWebsocketConnect(c)
    \/ TwilioToOpenaiPump(c)
    \/ OpenaiToTwilioPump(c)
    \/ VoiceWebsocketTeardown(c)

SpecBridge == Init /\ [][NextBridge]_vars

\* The event loop resumes a handler whose gather has returned; what the
\* carrier and the speech pipeline send, and when, is up to them.
SpecBridgeFair ==
  Init /\ [][NextBridge]_vars /\ \A c \in BridgeCalls : WF_vars(VoiceWebsocketTeardown(c))

\* every telephony frame of up to MaxFrameSamples samples, with a payload
\* that decodes or not, round trip
InitCodec ==
  /\ InitTracker /\ InitCampaign
  /\ hs = [h \in Handlers |-> [pc |-> "done", n |-> Notification("none", NoSid, NULL, NULL, NULL, "ok"),
                                existing |-> {}, overlapped |-> FALSE]]
  /\ log0 = {}
  /\ openai_to_twilio_state = NoneState
  /\ ws = [c \in BridgeCalls |-> NoBridge]
  /\ bridgeOp = BridgeStep(0, "none", "none", "none", FALSE)
  /\ codec \in {[stage |-> "frame", n |-> n, b64 |-> b64, pcm |-> 0, mulaw |-> 0] :
                  n \in 0..MaxFrameSamples, b64 \in BOOLEAN}
NextCodec == ToPipeline \/ ToCarrier
SpecCodec == InitCodec /\ [][NextCodec]_vars

\* an openai_to_twilio conversion of call c ran in this step
ConvertsToCarrier(c) ==
  /\ bridgeOp'.call = c /\ bridgeOp'.op = "openai" /\ bridgeOp'.event = "delta"
  /\ bridgeOp'.result \in {"forwarded", "unsent"}

\* C23: with two calls live, every openai_to_twilio conversion of a call
\* starts from the state that call's previous conversion left, or from the
\* reset state when it is the call's first.
C23_StateNeverShared ==
  [][\A c \in BridgeCalls :
       ConvertsToCarrier(c)
       => IF ws[c].first THEN openai_to_twilio_state = ResetConversionState
          ELSE openai_to_twilio_state.samples = c]_vars

\* C24: the first openai_to_twilio conversion of every call starts from the
\* reset state.
C24_FirstFrameOnFreshState ==
  [][\A c \in BridgeCalls :
       (ConvertsToCarrier(c) /\ ws[c].first)
       => openai_to_twilio_state = ResetConversionState]_vars

\* a media frame of call c's carrier can be forwarded in this state
ForwardsCarrierFrame(c) ==
  TwilioToOpenaiPump(c) /\ bridgeOp'.event = "media" /\ bridgeOp'.result = "forwarded"
ForwardsPipelineFrame(c) ==
  OpenaiToTwilioPump(c) /\ bridgeOp'.event = "delta" /\ bridgeOp'.result = "forwarded"
DropKeepsPumps ==
  \A c \in BridgeCalls :
    (bridgeOp'.call = c /\ bridgeOp'.result = "dropped")
    => ws' = ws /\ openai_to_twilio_state' = openai_to_twilio_state
ForwardsAfterDrop ==
  \A c \in BridgeCalls :
    (bridgeOp.call = c /\ bridgeOp.result = "dropped"
     /\ ws[c].tw = "running" /\ ws[c].oa = "running")
    => IF bridgeOp.op = "twilio" THEN ENABLED ForwardsCarrierFrame(c)
       ELSE ENABLED ForwardsPipelineFrame(c)
C26_RoundTripLength ==
  /\ codec.stage \in {"pipeline", "carrier"} => codec.pcm = 6 * codec.n
  /\ codec.stage = "carrier"
     => codec.mulaw \in (codec.n - 1)..(codec.n + 1)

\* C27: once a pump of a call has ended, the handler of the call reaches
\* its finally block and closes both connections.
C27_TeardownAfterEitherEnds ==
  \A c \in BridgeCalls :
    (ws[c].pc = "streaming" /\ (ws[c].tw # "running" \/ ws[c].oa # "running"))
    ~> ws[c].pc = "closed"

\* ======================================================================
\* Pace of the placements of one launch: properties checked under SpecLaunch
\* ======================================================================
\* C28: a launch never has more than one placement in flight, and the
\* placement for the contact at position k starts when the k - 1 placements
\* before it have returned or raised.
C28_PlacementsNeverOverlap ==
  \A i \in 1..Len(tasks) :
    /\ tasks[i].inflight <= 1
    /\ tasks[i].inflight = 1 => Len(attempts[i]) = tasks[i].idx - 1
\* the placement for a second contact is in flight after the first returned
C28_Witness ==
  \E i \in 1..Len(tasks) :
    tasks[i].inflight = 1 /\ tasks[i].idx = 2 /\ Len(attempts[i]) = 1

\* C29: when k of the n placements of a launch have returned or raised, the
\* dispatcher has slept once after each of them except after the last.
C29_DelayBetweenAttempts ==
  \A i \in 1..Len(tasks) :
    tasks[i].kind \in {"execute", "single"}
    => LET k == Len(attempts[i])
           n == Len(tasks[i].contacts)
       IN tasks[i].sleeps = IF k = n THEN n - 1 ELSE k

\* position of a status on initiated -> ringing -> in_progress -> terminal
StatusRank(status) ==
  CASE status = "initiated" -> 1
    [] status = "ringing" -> 2
    [] status = "in_progress" -> 3
    [] status \in TerminalStatuses -> 4
    [] OTHER -> 0
\* C30: the status of a call log is always one of the seven values, and no
\* step of a webhook, a placement or the agent moves it to an earlier
\* position of initiated -> ringing -> in_progress -> terminal.
C30_StatusOnlyMovesForward ==
  [][/\ \A r2 \in call_logs' : r2.status \in NonTerminalStatuses \cup TerminalStatuses
     /\ \A r \in call_logs : \A r2 \in Select(call_logs', r.twilio_call_sid) :
          StatusRank(r2.status) >= StatusRank(r.status)]_vars

\* C31: a call log is created with empty mapped_responses, and a step
\* changes them only if it is the on_exit of that call's agent, which runs
\* once and finds them empty.
C31_MappedWrittenOnceAtExit ==
  [][/\ \A r2 \in call_logs' :
          Select(call_logs, r2.twilio_call_sid) = {} => r2.mapped_responses = <<>>
     /\ \A r \in call_logs : \A r2 \in Select(call_logs', r.twilio_call_sid) :
          r2.mapped_responses # r.mapped_responses
          => /\ lastOp'.op = "on_exit" /\ lastOp'.sid = r.twilio_call_sid
             /\ lastOp'.mapping_written
             /\ r.mapped_responses = <<>>
             /\ agents[lastOp'.sid].pc # "exited"
             /\ agents'[lastOp'.sid].pc = "exited"]_vars
\* the mapping written at exit is still in the log after a status
\* notification for the call was written
C31_Witness ==
  /\ lastOp.op = "status" /\ lastOp.written
  /\ agents[lastOp.sid].pc = "exited"
  /\ \E r \in Select(call_logs, lastOp.sid) : r.mapped_responses # <<>>

\* ======================================================================
\* Survey status and repeated starts: properties of the campaign model
\* ======================================================================
\* a step of activate_survey that stored the new status (a launch also
\* sets the survey active, and records the request in launches)
ActivationStored == surveys' = "active" /\ surveys # "active" /\ launches' = launches
\* C32: an activation request changes the status of a survey only when the
\* survey is a draft; an active or closed survey keeps its status.
C32_ActivationOnlyFromDraft ==
  [][ActivationStored => surveys = "draft"]_vars

\* the contacts a start request i has called so far
CalledBy(i) == {attempts[i][k].contact_id : k \in 1..Len(attempts[i])}
\* C33: a start request through the calls endpoint queues no contact that
\* an earlier start request of the survey has already called.
C33_StartSkipsCalledContacts ==
  [][\A j \in 1..Len(launches') :
       (j > Len(launches) /\ launches'[j].endpoint = "start")
       => \A i \in 1..Len(launches) :
            launches[i].endpoint = "start"
            => \A k \in 1..Len(tasks'[j].contacts) :
                 tasks'[j].contacts[k] \notin CalledBy(i)]_vars

\* C34: every call log that exists eventually has a terminal status.
C34_LogReachesTerminalStatus ==
  \A sid \in Sids :
    (Select(call_logs, sid) # {})
    ~> (\E r \in Select(call_logs, sid) : r.status \in TerminalStatuses)

\* task i still has a contact without a placement attempt
HasContactsLeft(i) ==
  tasks[i].kind \in {"execute", "single"} /\ Len(attempts[i]) < Len(tasks[i].contacts)
\* execute_campaign_calls of launch i ends and stores the status closed
ClosesSurvey(i) ==
  /\ tasks[i].kind = "execute" /\ tasks[i].pc = "running" /\ tasks'[i].pc = "done"
  /\ tasks'[i].close = "stored"
\* C35: a dispatcher task stores closed only when no other task of the
\* survey has a contact left without a placement attempt, and no placement
\* starts while the survey is closed.
C35_ClosedOnlyWhenAllDispatched ==
  [][\A i \in 1..Len(tasks) :
       /\ ClosesSurvey(i) => \A j \in 1..Len(tasks) : j # i => ~HasContactsLeft(j)
       /\ tasks'[i].inflight > tasks[i].inflight => surveys # "closed"]_vars

\* C36: in the status report of every reachable state the four counters
\* add up to total_contacts, pending_calls is not negative and
\* completed_calls is at most total_contacts.
C36_StatusReportAddsUp ==
  LET rep == GetCampaignStatus(contact, call_logs)
  IN /\ rep.completed_calls + rep.in_progress_calls + rep.failed_calls + rep.pending_calls
          = rep.total_contacts
     /\ rep.pending_calls >= 0
     /\ rep.completed_calls <= rep.total_contacts

\* C37: an upload that is answered with an error leaves the contact table
\* as it was.
C37_RejectedUploadKeepsContacts ==
  [][\A owned \in BOOLEAN, csv \in CsvFiles, n \in 1..MaxContacts, insertOk \in BOOLEAN :
       (/\ UploadContactsAs(owned, csv, n, insertOk)
        /\ UploadOutcome(contact, owned, csv, n, insertOk).http # 200)
       => contact' = contact]_vars

\* the openai_to_twilio conversion of call c raised in this step
FailsToCarrier(c) ==
  bridgeOp'.call = c /\ bridgeOp'.op = "openai" /\ bridgeOp'.result = "dropped"
\* C38: an openai_to_twilio conversion that raises leaves the resampler
\* state as it was, and the conversion of the call's next frame starts from
\* the state the call's last converted frame left (the reset state when no
\* frame of the call was converted yet).
C38_FailedConversionKeepsState ==
  [][\A c \in BridgeCalls :
       /\ FailsToCarrier(c) => openai_to_twilio_state' = openai_to_twilio_state
       /\ (ConvertsToCarrier(c) /\ bridgeOp'.after_drop)
          => IF ws[c].first THEN openai_to_twilio_state = ResetConversionState
             ELSE openai_to_twilio_state.samples = c]_vars

====
